---- MODULE Spec2Model ----
(***************************************************************************)
(* Model of the memcached histogram pipeline of cmos-prometheus-exporter:  *)
(* the histogram accumulator (addReadings), its resampler (resample), and  *)
(* the two producers that feed it, the command-timing path                 *)
(* (processCommandTimings) and the stat-key path (mapHistogramStat).       *)
(*                                                                         *)
(* Numbers.  The program works on float64 bounds expressed in seconds.     *)
(* The model represents a bound b by the integer b * 10^6 (a "tick" is one *)
(* microsecond), so that the division by 1e+6 of the command-timing path   *)
(* and Duration.Seconds() of the stat-key path are exact.  h.sum is kept   *)
(* doubled (sum2 = 2 * h.sum, in ticks) so that the midpoint               *)
(* (lowerBound + upperBound) / 2 stays integral.  Floating-point rounding  *)
(* is not modelled.  uint64 arithmetic wraps modulo WordMod.               *)
(***************************************************************************)
EXTENDS Integers, Sequences, FiniteSets, TLC

\* ------------------------------------------------------------------ bounds
\* Number of direct addReadings calls on one accumulator.
MaxCalls == 2
\* Number of [upperBound, ops, percentile] entries of one timings response.
MaxData == 3
\* Number of stat keys of one histogram family in one stats map.
MaxKeys == 2
\* Length of a configured resampleBuckets list.
MaxNewBounds == 2
\* Stand-in for 2^64: every count of the model stays far below it, so the
\* only wrap-around is that of the unsigned subtraction in resample.
WordMod == 1073741824

\* The values bounds, counts and multipliers are drawn from.
BoundValues == 0 .. 3
CountValues == 0 .. 2
MultiplierValues == {0, 1, 2}
BucketsLowValues == {0, 1}

\* --------------------------------------------------------------- constants
\* math.Inf(1), the key of the overflow bucket: larger than every bound.
PosInf == 2147483647
\* 1e+6, microseconds per second.
UsPerSecond == 1000000

\* ----------------------------------------------------------------- helpers
\* A Go map with no entries.
EmptyMap == [k \in {} |-> 0]

\* m[k] = v on a Go map.
MapPut(m, k, v) == [x \in (DOMAIN m) \cup {k} |-> IF x = k THEN v ELSE m[x]]

\* Arithmetic on uint64.
Uint64(x) == x % WordMod

Min(S) == CHOOSE x \in S : \A y \in S : x <= y
Max(S) == CHOOSE x \in S : \A y \in S : x >= y

RECURSIVE SortAsc(_)
\* sort.Float64s on the keys of a map: the elements of S in ascending order.
SortAsc(S) ==
    IF S = {} THEN << >>
    ELSE LET m == Min(S) IN << m >> \o SortAsc(S \ {m})

\* The range of a sequence.
Range(s) == {s[i] : i \in DOMAIN s}

\* ------------------------------------------------------------- accumulator
\* newHistogram: no buckets, sum 0, count 0.
newHistogram == [buckets |-> EmptyMap, sum2 |-> 0, count |-> 0]

\* The sum of an earlier revision: value * (upperBound - lowerBound), doubled.
SumTermWidth(lowerBound, upperBound, value) == 2 * value * (upperBound - lowerBound)

\* float64(value) * ((lowerBound + upperBound) / 2), doubled.
SumTerm(lowerBound, upperBound, value) == value * (lowerBound + upperBound)

\* A bucket that holds the span's own count instead of the running total.
BucketValuePerSpan(count, value) == value

\* h.count + value, the cumulative count stored under upperBound.
BucketValue(count, value) == Uint64(count + value)

\* histogram.addReadings
addReadings(h, lowerBound, upperBound, value) ==
    [buckets |-> MapPut(h.buckets, upperBound, BucketValue(h.count, value)),
     count   |-> Uint64(h.count + value),
     sum2    |-> h.sum2 + SumTerm(lowerBound, upperBound, value)]

RECURSIVE AddAll(_, _)
\* addReadings for each span of a sequence, in order.
AddAll(h, ss) ==
    IF ss = << >> THEN h
    ELSE AddAll(addReadings(h, ss[1].lb, ss[1].ub, ss[1].count), Tail(ss))

\* --------------------------------------------------------------- resampler
\* The tie-break of an earlier reading of the rule: advance on >=.
ExceedsOrEquals(oldUpperBound, newUpperBound) == oldUpperBound >= newUpperBound

\* oldUpperBounds[i+1] > newUpperBounds[nextNewUpperBoundIndex]
Exceeds(oldUpperBound, newUpperBound) == oldUpperBound > newUpperBound

\* Adding the cumulative value itself, as the earlier resample did (sum += val).
DeltaCumulative(buckets, old, i) == buckets[old[i]]

\* The per-bucket delta added to sum: the first bucket's own value, otherwise
\* this bucket's value minus the previous one's, in uint64.
Delta(buckets, old, i) ==
    IF i = 1 THEN buckets[old[1]]
    ELSE Uint64(buckets[old[i]] - buckets[old[i - 1]])

RECURSIVE ResampleLoop(_, _, _, _, _, _, _)
\* The loop of resample at iteration i (1-based), with the running sum, the
\* number idx of new bounds already used and the map built so far.
ResampleLoop(buckets, old, new, i, sum, idx, resampled) ==
    IF i > Len(old) THEN resampled
    ELSE LET s == Uint64(sum + Delta(buckets, old, i)) IN
         IF i = Len(old)
         THEN IF idx = Len(new)
              THEN MapPut(resampled, PosInf, s)
              ELSE MapPut(resampled, new[idx + 1], s)
         ELSE IF idx = Len(new)
              THEN MapPut(resampled, PosInf, s)
              ELSE IF Exceeds(old[i + 1], new[idx + 1])
                   THEN ResampleLoop(buckets, old, new, i + 1, s, idx + 1,
                                     MapPut(resampled, new[idx + 1], s))
                   ELSE ResampleLoop(buckets, old, new, i + 1, s, idx, resampled)

\* histogram.resample: the new value of h.buckets.
resample(buckets, newUpperBounds) ==
    ResampleLoop(buckets, SortAsc(DOMAIN buckets), newUpperBounds, 1, 0, 0, EmptyMap)

\* ----------------------------------------------------- command-timing path
RECURSIVE InsertStable(_, _)
\* d placed in a sequence sorted by upper bound, after the entries that do
\* not compare greater (the order sort.SliceStable keeps among equals).
InsertStable(sorted, d) ==
    IF sorted = << >> THEN << d >>
    ELSE IF d.ub < sorted[1].ub THEN << d >> \o sorted
         ELSE << sorted[1] >> \o InsertStable(Tail(sorted), d)

RECURSIVE SortStableByUpperBound(_)
\* sort.SliceStable(data.Data, less on datum[0])
SortStableByUpperBound(data) ==
    IF data = << >> THEN << >>
    ELSE InsertStable(SortStableByUpperBound(SubSeq(data, 1, Len(data) - 1)),
                      data[Len(data)])

\* lastUpperBound := data.BucketsLow: the baseline is used as it arrives, as
\* a number of seconds.
InitialLowerBound(bucketsLow) == bucketsLow * UsPerSecond

\* upperBound := datum[0] / 1e+6: datum[0] microseconds, as seconds, are
\* datum[0] ticks.
TimingUpperBound(us) == us

RECURSIVE TimingSpans(_, _)
\* The spans the loop over the sorted data passes to addReadings: entries with
\* zero ops are skipped and each span starts at the previous upper bound.
TimingSpans(lastUpperBound, data) ==
    IF data = << >> THEN << >>
    ELSE IF data[1].ops = 0 THEN TimingSpans(lastUpperBound, Tail(data))
         ELSE LET upperBound == TimingUpperBound(data[1].ub) IN
              << [lb |-> lastUpperBound, ub |-> upperBound, count |-> data[1].ops] >>
                 \o TimingSpans(upperBound, Tail(data))

\* --------------------------------------------------------- stat-key path
\* lowerBound.Seconds() * metric.Multiplier for a bound parsed by findBounds
\* from a key "<prefix>_<lower>,<upper>" (microseconds), in ticks.
KeyBound(us, multiplier) == us * multiplier

\* The comparison of the sort of the matched keys: by parsed lower bound.
KeyLess(a, b) == a.lb < b.lb

\* An order sort.Slice may leave the matched keys in: no key is before one
\* that compares less (sort.Slice is not stable, and the keys come out of a
\* map in any order).
IsSortedOrder(order, keys) ==
    /\ Range(order) = keys
    /\ \A i, j \in DOMAIN order : i < j => ~KeyLess(order[j], order[i])

\* The spans mapHistogramStat passes to addReadings for the keys of one family.
KeySpans(order, vals, multiplier) ==
    [i \in DOMAIN order |->
        [lb    |-> KeyBound(order[i].lb, multiplier),
         ub    |-> KeyBound(order[i].ub, multiplier),
         count |-> vals[order[i]]]]

\* ------------------------------------------------------- collection cycle
\* The stat keys of the model.  A key carries what the parsers make of it:
\* "ok", "badValue" (strconv.ParseFloat / ParseUint fails on its value),
\* "badBounds" (the value parses; the key has its comma but the lower bound
\* before it does not parse) or "noComma" (the value parses; the key has no
\* comma after its last underscore, or neither comma nor underscore, so that
\* a slice expression on it is out of range).
StatKeys == {"k1", "k2"}
KeyClasses == {"ok", "badValue", "badBounds", "noComma"}

\* The prefix of a key before its last underscore: the keys of the model are
\* the buckets of one histogram family.
StatName(key) == "fam"

\* A sample sent on the metrics channel: the descriptor (its position in the
\* configuration and its Prometheus name), the bucket label it carries, the
\* bucket that was selected on the connection when its stats were read, and
\* the key (value metrics), family (histograms) or opcode (timings) it is for.
Sample(d, label, src, key) ==
    [id |-> d.id, name |-> d.name, label |-> label, src |-> src, key |-> key]

RECURSIVE ValueLoop(_, _, _, _, _, _, _)
\* The loop of mapValueStat over the stats map, in the order the map yields
\* its keys: a matching key is parsed and its sample sent; a parse failure
\* returns the error at once, with the samples already sent.
ValueLoop(d, label, src, vals, order, i, sent) ==
    IF i > Len(order) THEN [samples |-> sent, err |-> FALSE]
    ELSE IF order[i] \notin d.pattern
         THEN ValueLoop(d, label, src, vals, order, i + 1, sent)
         ELSE IF vals[order[i]] = "badValue"
              THEN [samples |-> sent, err |-> TRUE]
              ELSE ValueLoop(d, label, src, vals, order, i + 1,
                             sent \cup {Sample(d, label, src, order[i])})

\* Metrics.mapValueStat: the samples sent, whether an error is returned.
mapValueStat(d, label, src, vals, order) ==
    [samples |-> ValueLoop(d, label, src, vals, order, 1, {}).samples,
     err     |-> ValueLoop(d, label, src, vals, order, 1, {}).err,
     panic   |-> FALSE]

\* Metrics.mapHistogramStat, as far as its outcome goes: no matched key
\* returns nil; a matched key without comma panics, in findBounds
\* (bucketBounds[:commaIdx] with commaIdx = -1, called by the comparison of
\* sort.Slice when there are two keys or more and by the loop when there is
\* one) or in the loop (key[:lastUnderscoreIdx] when it has no underscore
\* either); the comparison of sort.Slice panics on a key whose bounds do
\* not parse (it is called when there are two keys or more); the loop returns
\* the error of findBounds or of ParseUint before anything is sent; otherwise
\* one histogram per family is sent.
mapHistogramStat(d, label, src, vals) ==
    LET matched == {k \in DOMAIN vals : k \in d.pattern} IN
    IF matched = {}
    THEN [samples |-> {}, err |-> FALSE, panic |-> FALSE]
    ELSE IF \E k \in matched : vals[k] = "noComma"
    THEN [samples |-> {}, err |-> FALSE, panic |-> TRUE]
    ELSE IF Cardinality(matched) >= 2 /\ \E k \in matched : vals[k] = "badBounds"
    THEN [samples |-> {}, err |-> FALSE, panic |-> TRUE]
    ELSE IF \E k \in matched : vals[k] # "ok"
    THEN [samples |-> {}, err |-> TRUE, panic |-> FALSE]
    ELSE [samples |-> {Sample(d, label, src, StatName(k)) : k \in matched},
          err |-> FALSE, panic |-> FALSE]

\* The switch of processStatGroup on metric.Type.
MapStat(d, label, src, vals, order) ==
    IF d.type = "histogram" THEN mapHistogramStat(d, label, src, vals)
    ELSE mapValueStat(d, label, src, vals, order)

\* The singleton check at the top of the loop of processStatGroup:
\* metric.Singleton and metric.name in singletons.
SkipSingleton(d, singletons) == d.singleton /\ d.name \in singletons

RECURSIVE StatGroupLoop(_, _, _, _, _, _, _)
\* The loop of processStatGroup over the descriptors ds of the group, from
\* descriptor i on.  st carries what the loop has done: the samples sent, the
\* singletons map, the descriptors skipped by the singleton check and those
\* marked in the cycle, and the descriptors this call has evaluated and seen
\* fail; st.panic ends the loop and the cycle.
StatGroupLoop(ds, label, src, vals, orders, i, st) ==
    IF i > Len(ds) \/ st.panic THEN st
    ELSE LET d == ds[i] IN
         IF SkipSingleton(d, st.singletons)
         THEN StatGroupLoop(ds, label, src, vals, orders, i + 1,
                 [st EXCEPT !.skipped = @ \cup {d.id}])
         ELSE LET r == MapStat(d, label, src, vals, orders[i]) IN
              StatGroupLoop(ds, label, src, vals, orders, i + 1,
                 [samples    |-> st.samples \cup r.samples,
                  singletons |-> IF ~r.err /\ ~r.panic /\ d.singleton
                                 THEN st.singletons \cup {d.name} ELSE st.singletons,
                  marked     |-> IF ~r.err /\ ~r.panic /\ d.singleton
                                 THEN st.marked \cup {d.id} ELSE st.marked,
                  skipped    |-> st.skipped,
                  evaluated  |-> st.evaluated \cup {d.id},
                  failed     |-> IF r.err \/ r.panic
                                 THEN st.failed \cup {d.id}
                                 ELSE st.failed,
                  panic      |-> r.panic])

\* The descriptors m.stats holds for a group, in slice order.
GroupDescs(descs, group) == SelectSeq(descs, LAMBDA d : d.group = group)

\* The groups of m.stats.
Groups(descs) == {descs[i].group : i \in DOMAIN descs}

\* The orders in which a map with the keys K can yield them.
KeyOrders(K) == {o \in [1 .. Cardinality(K) -> K] : Range(o) = K}

\* ------------------------------------------------------------------- state
VARIABLES
    path,       \* who feeds the accumulator: "none", "direct", "timings", "statkey"
    h,          \* the histogram: buckets, sum2, count
    spans,      \* the spans passed to addReadings so far, in call order
    pre,        \* h.buckets as it was when resample was called
    newBounds,  \* the bounds resample was called with
    resampled,  \* whether resample has run on h
    emitted     \* whether h.metric() was sent

\* The state of the collector (Metrics) and of a collection cycle (Collect).
VARIABLES
    conf,       \* the installed configuration: m.stats (descs) and m.commandTimings
    mux,        \* m.mux: "free" or the goroutine that holds it
    cpc,        \* where Collect is: "idle", "list", "select", "groups", "returned", "panicked"
    items,      \* the buckets of the list response
    idx,        \* the index in items of the bucket being processed
    selected,   \* the bucket selected on the memcached connection (0: none)
    groupsLeft, \* the stat groups of m.stats not yet requested for this bucket
    samples,    \* the samples sent on the metrics channel in this cycle
    singletons, \* the singletons map of this cycle
    trace,      \* what the cycle did: requests issued, descriptors skipped, ...
    last        \* the last call of processStatGroup: its arguments and outcome

\* The state of the goroutines that call Collect and updateMetricSet.
VARIABLES
    lpc,        \* where each goroutine is
    inst,       \* the versions held by m.ms, m.stats and m.commandTimings
    seen,       \* per collector, the (field, version) pairs its cycle has read
    updates     \* the metric sets passed to updateMetricSet so far: whether each compiles

\* One call of a function of the collector on its own.
VARIABLES
    call,       \* the function and its arguments
    ret         \* whether it has returned, and what

\* The system collector: the CPU sample and the goroutines that share it.
VARIABLES
    latestCPUStats, \* c.latestCPUStats: per field, the sample it was copied from
    pump,           \* pumpCPU: the sample being stored, the fields stored so far
    cpuReads        \* the cpuMetrics call: its statement (0: returned), loads to make, samples seen

histoVars == << path, h, spans, pre, newBounds, resampled, emitted >>
cycleVars == << conf, cpc, items, idx, selected, groupsLeft, samples, singletons, trace, last >>
lockVars == << lpc, inst, seen, updates >>
pureVars == << call, ret >>
cpuVars == << latestCPUStats, pump, cpuReads >>
vars == << histoVars, cycleVars, mux, lockVars, pureVars, cpuVars >>

\* resampleBuckets of the configuration: nil (absent) or a list.
NilBuckets == [nil |-> TRUE, vals |-> << >>]

\* The configurations: absent, or an ascending list of at most MaxNewBounds bounds.
ResampleConfigs ==
    {NilBuckets} \cup
    {[nil |-> FALSE, vals |-> SortAsc(S)] :
        S \in {T \in SUBSET BoundValues : Cardinality(T) <= MaxNewBounds}}

\* The data arrays of a timings response: [upper bound in microseconds, ops].
TimingData ==
    UNION {[1 .. n -> [ub : BoundValues \ {0}, ops : CountValues]] : n \in 0 .. MaxData}

\* The (lower, upper) bounds a stat key can carry, in microseconds.
KeyBounds == {k \in [lb : BoundValues, ub : BoundValues] : k.lb <= k.ub}

\* No descriptor configured, no cycle running.
NoConf == [descs |-> << >>, timings |-> FALSE]
NoTrace == [requests |-> << >>, skipped |-> {}, marked |-> {},
            selectFailed |-> {}, listFailed |-> FALSE]
\* No call of processStatGroup yet.
NoCall == [label |-> 0, group |-> "", vals |-> << >>, evaluated |-> {}, failed |-> {}]

CycleIdle ==
    /\ cpc = "idle"
    /\ items = << >>
    /\ idx = 0
    /\ selected = 0
    /\ groupsLeft = {}
    /\ samples = {}
    /\ singletons = {}
    /\ trace = NoTrace
    /\ last = NoCall

\* No accumulator in use.
HistoIdle ==
    /\ path = "none"
    /\ h = newHistogram
    /\ spans = << >>
    /\ pre = EmptyMap
    /\ newBounds = << >>
    /\ resampled = FALSE
    /\ emitted = FALSE

\* No goroutine running.
LockIdle ==
    /\ lpc = << >>
    /\ inst = [ms |-> 0, stats |-> 0, timings |-> 0]
    /\ seen = << >>
    /\ updates = << >>

\* No function called on its own.
PureIdle ==
    /\ call = [fn |-> "none"]
    /\ ret = [done |-> FALSE]

\* No system collector.
CpuIdle ==
    /\ latestCPUStats = << >>
    /\ pump = [sample |-> 0, stored |-> {}]
    /\ cpuReads = << >>

Init ==
    /\ PureIdle
    /\ CpuIdle
    /\ HistoIdle
    /\ conf = NoConf
    /\ mux = "free"
    /\ CycleIdle
    /\ LockIdle

\* One call histo.addReadings(lowerBound, upperBound, value) on the accumulator.
AddReadings ==
    /\ UNCHANGED << cycleVars, mux, lockVars, pureVars, cpuVars >>
    /\ path \in {"none", "direct"}
    /\ Len(spans) < MaxCalls
    /\ \E lowerBound \in BoundValues, upperBound \in BoundValues, value \in CountValues :
          /\ h' = addReadings(h, lowerBound, upperBound, value)
          /\ spans' = Append(spans, [lb |-> lowerBound, ub |-> upperBound, count |-> value])
    /\ path' = "direct"
    /\ UNCHANGED << pre, newBounds, resampled, emitted >>

\* processCommandTimings for one opcode: the response is sorted, fed to a new
\* histogram, resampled when resampleBuckets is not nil, and emitted.  An empty
\* data array emits nothing.
ProcessCommandTimings ==
    /\ UNCHANGED << cycleVars, mux, lockVars, pureVars, cpuVars >>
    /\ path = "none"
    /\ \E bucketsLow \in BucketsLowValues, data \in TimingData, cfg \in ResampleConfigs :
          IF Len(data) = 0
          THEN /\ path' = "timings"
               /\ UNCHANGED << h, spans, pre, newBounds, resampled, emitted >>
          ELSE \E ss \in {TimingSpans(InitialLowerBound(bucketsLow),
                                      SortStableByUpperBound(data))} :
               \E histo \in {AddAll(newHistogram, ss)} :
                  /\ path' = "timings"
                  /\ spans' = ss
                  /\ pre' = histo.buckets
                  /\ IF ~cfg.nil
                     THEN /\ h' = [histo EXCEPT !.buckets = resample(histo.buckets, cfg.vals)]
                          /\ newBounds' = cfg.vals
                          /\ resampled' = TRUE
                     ELSE /\ h' = histo
                          /\ newBounds' = << >>
                          /\ resampled' = FALSE
                  /\ emitted' = TRUE

\* mapHistogramStat for the matched keys of one histogram family: the keys are
\* sorted by lower bound, fed to a new histogram, resampled when
\* resampleBuckets has entries, and emitted.  No matched key emits nothing.
MapHistogramStat ==
    /\ UNCHANGED << cycleVars, mux, lockVars, pureVars, cpuVars >>
    /\ path = "none"
    /\ \E keys \in {K \in SUBSET KeyBounds : Cardinality(K) <= MaxKeys},
          multiplier \in MultiplierValues, cfg \in ResampleConfigs :
          IF keys = {}
          THEN /\ path' = "statkey"
               /\ UNCHANGED << h, spans, pre, newBounds, resampled, emitted >>
          ELSE \E vals \in [keys -> CountValues],
                  order \in [1 .. Cardinality(keys) -> keys] :
               /\ IsSortedOrder(order, keys)
               /\ \E ss \in {KeySpans(order, vals, multiplier)} :
                  \E histo \in {AddAll(newHistogram, ss)} :
                     /\ path' = "statkey"
                     /\ spans' = ss
                     /\ pre' = histo.buckets
                     /\ IF Len(cfg.vals) > 0
                        THEN /\ h' = [histo EXCEPT !.buckets = resample(histo.buckets, cfg.vals)]
                             /\ newBounds' = cfg.vals
                             /\ resampled' = TRUE
                        ELSE /\ h' = histo
                             /\ newBounds' = << >>
                             /\ resampled' = FALSE
                     /\ emitted' = TRUE

Next ==
    \/ AddReadings
    \/ ProcessCommandTimings
    \/ MapHistogramStat

Spec == Init /\ [][Next]_vars

\* ------------------------------------------------ the collection cycle
MaxItems == 2

\* The configurations a cycle runs with: one or two descriptors.  The first
\* is named m1 and reads group g1; the second is a value descriptor matching
\* k1, of either name and either group.  Command timings are configured next
\* to a single descriptor.
DescNames == {"m1", "m2"}
GroupNames == {"g1", "g2"}
StatTypes == {"value", "histogram"}
Patterns == {{"k1"}, {"k1", "k2"}}
FirstDescs == [id : {1}, name : {"m1"}, group : {"g1"}, type : StatTypes,
               singleton : BOOLEAN, pattern : Patterns]
SecondDescs == [id : {2}, name : DescNames, group : GroupNames, type : {"value"},
                singleton : BOOLEAN, pattern : {{"k1"}}]

\* The orders updateMetricSet can leave two descriptors in: it appends to
\* statsMap[val.Group] inside a range over the map ms.Stats, so descriptors
\* of one metric name keep the order of set.Values and descriptors of two
\* names that share a group come in either order (those of two groups never
\* meet in one list).
InstalledOrders(a, b) ==
    IF a.name # b.name /\ a.group = b.group
    THEN {<< a, b >>, << b, a >>}
    ELSE {<< a, b >>}

Confs == [descs : {<< a >> : a \in FirstDescs}, timings : BOOLEAN]
         \cup [descs : UNION {InstalledOrders(a, b) : a \in FirstDescs, b \in SecondDescs},
               timings : {FALSE}]

\* The stat maps StatsMap can return: some of the keys, each with its class.
StatMaps == UNION {[K -> KeyClasses] : K \in SUBSET StatKeys}

\* The opcodes of m.commandTimings, in the order of the configuration, and
\* the descriptor their histograms are emitted under.
Opcodes == << "GET", "SET" >>
TimingOutcomes == {"ok", "empty", "sendErr", "badJson"}
TimingDesc == [id |-> 0, name |-> "kv_cmd_duration_seconds"]

\* The list request has failed: Send returned an error or a nil response.
ListFailedNever(outcome) == FALSE
ListFailed(outcome) == outcome \in {"err", "nil"}

\* A log that takes the latest request first.
RequestedFirst(t, op, item) ==
    [t EXCEPT !.requests = << [op |-> op, item |-> item] >> \o @]

\* Append a request to the log of the connection.
Requested(t, op, item) ==
    [t EXCEPT !.requests = Append(@, [op |-> op, item |-> item])]

\* Collect is called: it takes the mutex.
CollectBegin ==
    /\ cpc = "idle"
    /\ mux = "free"
    /\ mux' = "c1"
    /\ cpc' = "list"
    /\ UNCHANGED << conf, items, idx, selected, groupsLeft, samples, singletons, trace, last >>
    /\ UNCHANGED << histoVars, lockVars, pureVars, cpuVars >>

\* The list request and what Collect does with its response: an error or a
\* nil response returns (the deferred Unlock runs); otherwise the body is
\* split into the bucket names, and an empty list ends the cycle.
ListBuckets ==
    /\ cpc = "list"
    /\ \E outcome \in {"err", "nil", "ok"}, n \in 0 .. MaxItems :
          IF ListFailed(outcome)
          THEN /\ trace' = [Requested(trace, "list", 0) EXCEPT !.listFailed = TRUE]
               /\ cpc' = "returned"
               /\ mux' = "free"
               /\ UNCHANGED << items, idx >>
          ELSE /\ trace' = [Requested(trace, "list", 0) EXCEPT
                               !.listFailed = (outcome # "ok")]
               /\ items' = [i \in 1 .. n |-> i]
               /\ IF n = 0
                  THEN cpc' = "returned" /\ mux' = "free" /\ idx' = idx
                  ELSE cpc' = "select" /\ mux' = mux /\ idx' = 1
    /\ UNCHANGED << conf, selected, groupsLeft, samples, singletons, last >>
    /\ UNCHANGED << histoVars, lockVars, pureVars, cpuVars >>

\* SelectBucket for the current bucket: a failure is logged, and the loop
\* over the stat groups follows in either case.
SelectBucket ==
    /\ cpc = "select"
    /\ \E ok \in BOOLEAN :
          /\ selected' = IF ok THEN items[idx] ELSE selected
          /\ trace' = [Requested(trace, "select", items[idx]) EXCEPT
                          !.selectFailed = IF ok THEN @ ELSE @ \cup {items[idx]}]
    /\ groupsLeft' = Groups(conf.descs)
    /\ cpc' = "groups"
    /\ UNCHANGED << conf, mux, items, idx, samples, singletons, last >>
    /\ UNCHANGED << histoVars, lockVars, pureVars, cpuVars >>

\* One iteration of the loop over m.stats: StatsMap for a group (the map
\* yields the groups in any order), then processStatGroup on its result.  A
\* panic in a descriptor unwinds Collect: the deferred Unlock runs.
StatGroup ==
    /\ cpc = "groups"
    /\ groupsLeft # {}
    /\ \E group \in groupsLeft, ok \in BOOLEAN :
          /\ groupsLeft' = groupsLeft \ {group}
          /\ IF ~ok
             THEN /\ trace' = Requested(trace, "stats", items[idx])
                  /\ UNCHANGED << samples, singletons, last, cpc, mux >>
             ELSE \E vals \in StatMaps :
                  \E ds \in {GroupDescs(conf.descs, group)} :
                  \E orders \in [1 .. Len(ds) -> KeyOrders(DOMAIN vals)] :
                  \E st \in {StatGroupLoop(ds, items[idx], selected, vals, orders, 1,
                               [samples |-> samples, singletons |-> singletons,
                                marked |-> trace.marked, skipped |-> trace.skipped,
                                evaluated |-> {}, failed |-> {}, panic |-> FALSE])} :
                     /\ samples' = st.samples
                     /\ singletons' = st.singletons
                     /\ trace' = [Requested(trace, "stats", items[idx]) EXCEPT
                                     !.marked = st.marked, !.skipped = st.skipped]
                     /\ last' = [label |-> items[idx], group |-> group, vals |-> vals,
                                 evaluated |-> st.evaluated, failed |-> st.failed]
                     /\ IF st.panic
                        THEN cpc' = "panicked" /\ mux' = "free"
                        ELSE cpc' = cpc /\ mux' = mux
    /\ UNCHANGED << conf, items, idx, selected >>
    /\ UNCHANGED << histoVars, lockVars, pureVars, cpuVars >>

\* The end of the body of the loop over the buckets: the next bucket, or the
\* return of Collect with its deferred Unlock.
NextBucket ==
    IF idx < Len(items)
    THEN cpc' = "select" /\ idx' = idx + 1 /\ mux' = mux
    ELSE cpc' = "returned" /\ idx' = idx /\ mux' = "free"

\* The number of opcodes processCommandTimings sends a request for: all of
\* them, or those up to the first request that fails or does not unmarshal.
TimingsIssued(outs) ==
    LET fails == {i \in DOMAIN outs : outs[i] \in {"sendErr", "badJson"}} IN
    IF fails = {} THEN Len(outs) ELSE Min(fails)

\* processCommandTimings for the current bucket, once its stat groups are
\* done and m.commandTimings is not nil.  The request names the bucket in its key.
CommandTimings ==
    /\ cpc = "groups"
    /\ groupsLeft = {}
    /\ conf.timings
    /\ \E outs \in [DOMAIN Opcodes -> TimingOutcomes] :
          /\ samples' = samples \cup
                {Sample(TimingDesc, items[idx], items[idx], Opcodes[i]) :
                    i \in {j \in 1 .. TimingsIssued(outs) : outs[j] = "ok"}}
          /\ trace' = [trace EXCEPT !.requests =
                          @ \o [i \in 1 .. TimingsIssued(outs) |->
                                   [op |-> "timings", item |-> items[idx]]]]
    /\ NextBucket
    /\ UNCHANGED << conf, items, selected, groupsLeft, singletons, last >>
    /\ UNCHANGED << histoVars, lockVars, pureVars, cpuVars >>

\* The same point of the loop when m.commandTimings is nil.
NoCommandTimings ==
    /\ cpc = "groups"
    /\ groupsLeft = {}
    /\ ~conf.timings
    /\ NextBucket
    /\ UNCHANGED << conf, items, selected, groupsLeft, samples, singletons, trace, last >>
    /\ UNCHANGED << histoVars, lockVars, pureVars, cpuVars >>

\* A collector with any of the configurations installed, about to run a cycle.
CycleInit ==
    /\ PureIdle
    /\ CpuIdle
    /\ HistoIdle
    /\ conf \in Confs
    /\ mux = "free"
    /\ CycleIdle
    /\ LockIdle

CycleNext ==
    \/ CollectBegin
    \/ ListBuckets
    \/ SelectBucket
    \/ StatGroup
    \/ CommandTimings
    \/ NoCommandTimings

CycleSpec == CycleInit /\ [][CycleNext]_vars

\* The cycle of a collector with one descriptor configured; command timings
\* are configured next to a plain value descriptor matching one key.
SingleDescInit ==
    /\ CycleInit
    /\ Len(conf.descs) = 1
    /\ conf.timings => (/\ conf.descs[1].type = "value"
                         /\ ~conf.descs[1].singleton
                         /\ conf.descs[1].pattern = {"k1"})

SingleDescSpec == SingleDescInit /\ [][CycleNext]_vars

\* ------------------------------------------------------- claim vocabulary
\* The buckets of the accumulator as addReadings left them.
AccBuckets == IF resampled THEN pre ELSE h.buckets

RECURSIVE SumCounts(_)
\* The sum of the counts of a sequence of spans.
SumCounts(ss) == IF ss = << >> THEN 0 ELSE ss[1].count + SumCounts(Tail(ss))

RECURSIVE SumMidpoints2(_)
\* Twice the sum over the spans of count * (lowerBound + upperBound) / 2.
SumMidpoints2(ss) ==
    IF ss = << >> THEN 0
    ELSE ss[1].count * (ss[1].lb + ss[1].ub) + SumMidpoints2(Tail(ss))

RECURSIVE SumValues(_)
\* The sum of the values of a map.
SumValues(m) ==
    IF DOMAIN m = {} THEN 0
    ELSE LET k == Min(DOMAIN m) IN
         m[k] + SumValues([x \in (DOMAIN m) \ {k} |-> m[x]])

\* The spans were given in non-decreasing order of upper bound.
UpperBoundsNonDecreasing ==
    \A i, j \in DOMAIN spans : i < j => spans[i].ub <= spans[j].ub

\* The spans were given in non-decreasing order of lower bound.
LowerBoundsNonDecreasing ==
    \A i, j \in DOMAIN spans : i < j => spans[i].lb <= spans[j].lb

\* Read in ascending key order, the counts of m never decrease.
Monotone(m) == \A a, b \in DOMAIN m : a < b => m[a] <= m[b]

\* The number of observations recorded in old buckets whose upper bound is at
\* or below b.
CumulativeAtOrBelow(m, b) ==
    LET below == {u \in DOMAIN m : u <= b} IN
    IF below = {} THEN 0 ELSE m[Max(below)]

\* The spans of TestHistogram and of TestHistogramResample.
SimpleSpans ==
    << [lb |-> 0, ub |-> 10, count |-> 5], [lb |-> 10, ub |-> 20, count |-> 10],
       [lb |-> 20, ub |-> 25, count |-> 5] >>
ResampleSpans ==
    << [lb |-> 0, ub |-> 5, count |-> 5], [lb |-> 5, ub |-> 10, count |-> 5],
       [lb |-> 10, ub |-> 15, count |-> 5], [lb |-> 15, ub |-> 20, count |-> 10],
       [lb |-> 20, ub |-> 25, count |-> 5] >>

\* ------------------------------------------------------------------ claims
\* C1 as stated: after any sequence of addReadings calls, count is the sum of
\* the counts added, the bucket under the upper bound of EACH span holds the
\* total count before that span plus its count, and sum is the sum of
\* count * (lowerBound + upperBound) / 2.
C1_Original ==
    /\ h.count = SumCounts(spans)
    /\ h.sum2 = SumMidpoints2(spans)
    /\ \A i \in DOMAIN spans :
          /\ spans[i].ub \in DOMAIN AccBuckets
          /\ AccBuckets[spans[i].ub] = SumCounts(SubSeq(spans, 1, i))

\* C1 amended: count and sum as stated; the bucket under a span's upper bound
\* holds the total count before that span plus its count for every span whose
\* upper bound no later span repeats (a later span with the same upper bound
\* overwrites the bucket), and there is no other bucket.  The spans
\* (0,10,5),(10,20,10),(20,25,5) give {10:5, 20:15, 25:20}, count 20, sum 287.5.
C1_Amended ==
    /\ h.count = SumCounts(spans)
    /\ h.sum2 = SumMidpoints2(spans)
    /\ DOMAIN AccBuckets = {spans[i].ub : i \in DOMAIN spans}
    /\ \A i \in DOMAIN spans :
          (\A j \in DOMAIN spans : j > i => spans[j].ub # spans[i].ub)
             => AccBuckets[spans[i].ub] = SumCounts(SubSeq(spans, 1, i))
    /\ AddAll(newHistogram, SimpleSpans) =
          [buckets |-> (10 :> 5) @@ (20 :> 15) @@ (25 :> 20), count |-> 20, sum2 |-> 575]

\* Two direct calls with different upper bounds and non-zero counts were made.
C1_Witness ==
    /\ path = "direct"
    /\ Len(spans) = 2
    /\ spans[1].ub # spans[2].ub
    /\ spans[1].count > 0
    /\ spans[2].count > 0
    /\ spans[1].lb + spans[1].ub > 0

\* C2: for spans in ascending order and ascending new bounds that are all old
\* upper bounds, resample stores under each new bound b the old cumulative
\* count at b; the fixture of TestHistogramResample resampled to [10, 20] gives
\* {10:10, 20:25, +Inf:30}.
C2_TieBreak ==
    /\ (resampled /\ UpperBoundsNonDecreasing /\ Range(newBounds) \subseteq DOMAIN pre)
          => \A b \in Range(newBounds) :
                b \in DOMAIN h.buckets /\ h.buckets[b] = pre[b]
    /\ resample(AddAll(newHistogram, ResampleSpans).buckets, << 10, 20 >>) =
          (10 :> 10) @@ (20 :> 25) @@ (PosInf :> 30)

\* Three old buckets were resampled to two of their upper bounds, the first
\* of which has a smaller old bucket below it.
C2_Witness ==
    /\ resampled
    /\ UpperBoundsNonDecreasing
    /\ Len(newBounds) = 2
    /\ Range(newBounds) \subseteq DOMAIN pre
    /\ Cardinality(DOMAIN pre) = 3
    /\ \E u \in DOMAIN pre : u < newBounds[1] /\ pre[u] < pre[newBounds[1]]

\* C3 as stated: the values of the resampled map add up to count.
C3_Original ==
    (resampled /\ Len(newBounds) > 0) => SumValues(h.buckets) = h.count

\* C3 amended: the resampled buckets are cumulative, so their values do not add
\* up to count; every value of the resampled map is one of the cumulative
\* counts of the accumulator and is at most count.
C3_Amended ==
    (resampled /\ Len(newBounds) > 0)
       => \A k \in DOMAIN h.buckets :
             /\ h.buckets[k] <= h.count
             /\ \E u \in DOMAIN pre : h.buckets[k] = pre[u]

\* A resample that produced two buckets with different counts.
C3_Witness ==
    /\ resampled
    /\ Len(newBounds) > 0
    /\ \E a, b \in DOMAIN h.buckets : a < b /\ 0 < h.buckets[a] /\ h.buckets[a] < h.buckets[b]

\* C4: after resample with ascending non-empty new bounds on a non-empty
\* accumulator built from ascending spans, the count under the largest key of
\* the resampled map equals count.
C4_LargestKeyIsTotal ==
    (resampled /\ Len(newBounds) > 0 /\ DOMAIN pre # {} /\ UpperBoundsNonDecreasing)
       => h.buckets[Max(DOMAIN h.buckets)] = h.count

\* C5: when the (non-empty) new bounds run out while old buckets remain, the
\* +Inf bucket accounts for every remaining old bucket: it holds count.
C5_InfinityTakesAllRemaining ==
    (resampled /\ UpperBoundsNonDecreasing /\ Len(newBounds) > 0
        /\ PosInf \in DOMAIN h.buckets)
       => h.buckets[PosInf] = h.count

\* C6: every finite bucket b of the resampled map holds the number of
\* observations of the old buckets whose upper bound is at or below b.
C6_CumulativeSemantics ==
    (resampled /\ UpperBoundsNonDecreasing)
       => \A b \in (DOMAIN h.buckets) \ {PosInf} :
             h.buckets[b] = CumulativeAtOrBelow(pre, b)

\* C7: resampling into bounds that include every old upper bound keeps, for
\* every old upper bound, its cumulative count.
C7_RefinementKeepsCounts ==
    (resampled /\ DOMAIN pre # {} /\ DOMAIN pre \subseteq Range(newBounds))
       => \A u \in DOMAIN pre : u \in DOMAIN h.buckets /\ h.buckets[u] = pre[u]

\* C8: +Inf is absent from the resampled map only if the largest old upper
\* bound is at or below the new bound that received the last old bucket (the
\* largest key stored).
C8_InfinityAbsentOnlyIfCovered ==
    (resampled /\ DOMAIN pre # {} /\ PosInf \notin DOMAIN h.buckets)
       => Max(DOMAIN pre) <= Max(DOMAIN h.buckets)

\* C9, for the command-timing path: sum lies between count times the
\* smallest lower bound and count times the largest upper bound of the spans.
C9_TimingSumBound ==
    (path = "timings" /\ spans # << >>)
       => /\ 2 * h.count * Min({spans[i].lb : i \in DOMAIN spans}) <= h.sum2
          /\ h.sum2 <= 2 * h.count * Max({spans[i].ub : i \in DOMAIN spans})

\* C10 as stated: spans given in non-decreasing order of lower bound leave
\* buckets whose counts, read in ascending upper-bound order, never decrease.
C10_Original == LowerBoundsNonDecreasing => Monotone(AccBuckets)

\* C10 amended: spans given in non-decreasing order of UPPER bound leave
\* buckets whose counts, read in ascending upper-bound order, never decrease.
C10_Amended == UpperBoundsNonDecreasing => Monotone(AccBuckets)

\* Two spans in ascending upper-bound order, the first with a larger count.
C10_Witness ==
    /\ Len(spans) = 2
    /\ spans[1].ub < spans[2].ub
    /\ spans[1].count > spans[2].count
    /\ spans[2].count > 0

\* C25: with an empty list of resample bounds (absent, or a list without
\* entries) no resampling is done: the emitted histogram has the buckets of
\* the accumulator, on the stat-key path and on the command-timing path.
C25_EmptyBoundsNoResample ==
    (emitted /\ path \in {"timings", "statkey"} /\ newBounds = << >>)
       => h.buckets = pre

\* C29: on the command-timing path every span has lowerBound <= upperBound
\* in one unit, each span after the first starts at the upper bound of the
\* span before it, and no span has a zero count.
C29_TimingSpansOrdered ==
    path = "timings" =>
        \A i \in DOMAIN spans :
            /\ spans[i].lb <= spans[i].ub
            /\ spans[i].count > 0
            /\ i > 1 => spans[i].lb = spans[i - 1].ub

\* ------------------------------------ goroutines, the mutex, the update
MaxUpdates == 2

\* The goroutines: two scrapes that call Collect, one caller of updateMetricSet.
Collectors == {"c1", "c2"}
Updater == "u1"
Procs == Collectors \cup {Updater}

\* m.mux.Lock() in Collect returns when the mutex is free.
CollectLockAbsent(holder) == TRUE
CollectLock(holder) == holder = "free"

\* m.mux.Lock() in updateMetricSet returns when the mutex is free.
UpdateLockAbsent(holder) == TRUE
UpdateLock(holder) == holder = "free"

\* regexp.Compile succeeds on every pattern of the metric set.
CompilesAnything(ms) == TRUE
Compiles(ms) == ms

\* The version the metric set of the running updateMetricSet call installs:
\* the number of the call.
Candidate == Len(updates)

\* A goroutine calls Collect and reaches m.mux.Lock().
LCall(c) ==
    /\ lpc[c] = "idle"
    /\ lpc' = [lpc EXCEPT ![c] = "waiting"]
    /\ UNCHANGED << mux, inst, seen, updates >>
    /\ UNCHANGED << histoVars, cycleVars, pureVars, cpuVars >>

\* Lock returns in Collect; the cycle starts.
LLock(c) ==
    /\ lpc[c] = "waiting"
    /\ CollectLock(mux)
    /\ mux' = c
    /\ lpc' = [lpc EXCEPT ![c] = "list"]
    /\ seen' = [seen EXCEPT ![c] = {}]
    /\ UNCHANGED << inst, updates >>
    /\ UNCHANGED << histoVars, cycleVars, pureVars, cpuVars >>

\* The list request of the cycle: a failure or an empty list returns, with
\* the deferred Unlock; otherwise the loop over the buckets starts.
LList(c) ==
    /\ lpc[c] = "list"
    /\ \E proceed \in BOOLEAN :
          IF proceed
          THEN lpc' = [lpc EXCEPT ![c] = "stats"] /\ mux' = mux
          ELSE lpc' = [lpc EXCEPT ![c] = "idle"] /\ mux' = "free"
    /\ UNCHANGED << inst, seen, updates >>
    /\ UNCHANGED << histoVars, cycleVars, pureVars, cpuVars >>

\* The loop over m.stats for one bucket: the cycle reads m.stats.  A panic
\* in processStatGroup (mapHistogramStat) unwinds Collect: the deferred
\* Unlock runs and the cycle is over.
LStats(c) ==
    /\ lpc[c] = "stats"
    /\ seen' = [seen EXCEPT ![c] = @ \cup {<< "stats", inst.stats >>}]
    /\ \E panics \in BOOLEAN :
          IF panics
          THEN lpc' = [lpc EXCEPT ![c] = "idle"] /\ mux' = "free"
          ELSE lpc' = [lpc EXCEPT ![c] = "timings"] /\ mux' = mux
    /\ UNCHANGED << inst, updates >>
    /\ UNCHANGED << histoVars, cycleVars, pureVars, cpuVars >>

\* The command timings of one bucket: the cycle reads m.commandTimings; then
\* the next bucket, or the return of Collect with the deferred Unlock.
LTimings(c) ==
    /\ lpc[c] = "timings"
    /\ seen' = [seen EXCEPT ![c] = @ \cup {<< "timings", inst.timings >>}]
    /\ \E more \in BOOLEAN :
          IF more
          THEN lpc' = [lpc EXCEPT ![c] = "stats"] /\ mux' = mux
          ELSE lpc' = [lpc EXCEPT ![c] = "idle"] /\ mux' = "free"
    /\ UNCHANGED << inst, updates >>
    /\ UNCHANGED << histoVars, cycleVars, pureVars, cpuVars >>

\* updateMetricSet is called with a metric set whose patterns all compile, or
\* not; it reaches m.mux.Lock().
UCall ==
    /\ lpc[Updater] = "idle"
    /\ Len(updates) < MaxUpdates
    /\ \E valid \in BOOLEAN : updates' = Append(updates, valid)
    /\ lpc' = [lpc EXCEPT ![Updater] = "waiting"]
    /\ UNCHANGED << mux, inst, seen >>
    /\ UNCHANGED << histoVars, cycleVars, pureVars, cpuVars >>

\* Lock returns in updateMetricSet.
ULock ==
    /\ lpc[Updater] = "waiting"
    /\ UpdateLock(mux)
    /\ mux' = Updater
    /\ lpc' = [lpc EXCEPT ![Updater] = "compile"]
    /\ UNCHANGED << inst, seen, updates >>
    /\ UNCHANGED << histoVars, cycleVars, pureVars, cpuVars >>

\* The loop that builds the local statsMap: a pattern that does not compile
\* returns the error, with the deferred Unlock, before any field is assigned.
UCompile ==
    /\ lpc[Updater] = "compile"
    /\ IF Compiles(updates[Candidate])
       THEN lpc' = [lpc EXCEPT ![Updater] = "setMs"] /\ mux' = mux
       ELSE lpc' = [lpc EXCEPT ![Updater] = "idle"] /\ mux' = "free"
    /\ UNCHANGED << inst, seen, updates >>
    /\ UNCHANGED << histoVars, cycleVars, pureVars, cpuVars >>

\* m.ms = ms
USetMs ==
    /\ lpc[Updater] = "setMs"
    /\ inst' = [inst EXCEPT !.ms = Candidate]
    /\ lpc' = [lpc EXCEPT ![Updater] = "setStats"]
    /\ UNCHANGED << mux, seen, updates >>
    /\ UNCHANGED << histoVars, cycleVars, pureVars, cpuVars >>

\* m.stats = statsMap
USetStats ==
    /\ lpc[Updater] = "setStats"
    /\ inst' = [inst EXCEPT !.stats = Candidate]
    /\ lpc' = [lpc EXCEPT ![Updater] = "setTimings"]
    /\ UNCHANGED << mux, seen, updates >>
    /\ UNCHANGED << histoVars, cycleVars, pureVars, cpuVars >>

\* m.commandTimings = ... and return nil, with the deferred Unlock.
USetTimings ==
    /\ lpc[Updater] = "setTimings"
    /\ inst' = [inst EXCEPT !.timings = Candidate]
    /\ lpc' = [lpc EXCEPT ![Updater] = "idle"]
    /\ mux' = "free"
    /\ UNCHANGED << seen, updates >>
    /\ UNCHANGED << histoVars, cycleVars, pureVars, cpuVars >>

\* The collector as NewMemcachedMetrics leaves it (version 0 installed), with
\* its goroutines idle.
LockInit ==
    /\ PureIdle
    /\ CpuIdle
    /\ HistoIdle
    /\ conf = NoConf
    /\ mux = "free"
    /\ CycleIdle
    /\ lpc = [p \in Procs |-> "idle"]
    /\ inst = [ms |-> 0, stats |-> 0, timings |-> 0]
    /\ seen = [c \in Collectors |-> {}]
    /\ updates = << >>

LockNext ==
    \/ \E c \in Collectors : LCall(c)
    \/ \E c \in Collectors : LLock(c)
    \/ \E c \in Collectors : LList(c)
    \/ \E c \in Collectors : LStats(c)
    \/ \E c \in Collectors : LTimings(c)
    \/ UCall
    \/ ULock
    \/ UCompile
    \/ USetMs
    \/ USetStats
    \/ USetTimings

LockSpec == LockInit /\ [][LockNext]_vars

\* ------------------------------------------- functions called on their own
MaxLabels == 2
MaxMatched == 3

\* strings.ToUpper and strings.ToLower on the texts of the model.
ToUpper(t) ==
    CASE t \in {"get", "Get", "GET"} -> "GET"
      [] t \in {"b1", "B1"} -> "B1"
      [] t \in {"_default", "_DEFAULT"} -> "_DEFAULT"
      [] OTHER -> t
ToLower(t) ==
    CASE t \in {"get", "Get", "GET"} -> "get"
      [] t \in {"b1", "B1"} -> "b1"
      [] t \in {"_default", "_DEFAULT"} -> "_default"
      [] OTHER -> t

\* transformFn of a label: the identity, or the transformer named after the colon.
Transform(transform, t) ==
    CASE transform = "uppercase" -> ToUpper(t)
      [] transform = "lowercase" -> ToLower(t)
      [] OTHER -> t

\* regexp.SubexpIndex: the index of the first capture group of that name, -1
\* when there is none.  names lists the names of the capture groups.
SubexpIndex(names, label) ==
    IF \E i \in DOMAIN names : names[i] = label
    THEN Min({i \in DOMAIN names : names[i] = label})
    ELSE -1

\* match[i] of the code: the slice of FindStringSubmatch is indexed from 0.
MatchAt(match, i) == match[i + 1]

\* A label without a capture group of its name: the default case logs the
\* warning and then indexes match with -1, which panics.
MissingGroupPanics(names, label) == SubexpIndex(names, label) = -1

\* The value resolveLabelValues gives one label.
LabelValue(bucket, fake, names, match, label) ==
    CASE label.name = "bucket" -> Transform(label.transform, bucket)
      [] label.name \in {"scope", "collection"} ->
            IF fake THEN Transform(label.transform, "_default")
            ELSE IF SubexpIndex(names, label.name) > 0
                 THEN Transform(label.transform,
                                MatchAt(match, SubexpIndex(names, label.name)))
                 ELSE ""
      [] OTHER ->
            IF MissingGroupPanics(names, label.name) THEN ""
            ELSE Transform(label.transform,
                           MatchAt(match, SubexpIndex(names, label.name)))

\* Metrics.resolveLabelValues: the label values, or the panic of the index
\* expression.
resolveLabelValues(bucket, fake, labels, names, match) ==
    IF \E i \in DOMAIN labels :
          /\ labels[i].name \notin {"bucket", "scope", "collection"}
          /\ MissingGroupPanics(names, labels[i].name)
    THEN [panic |-> TRUE, values |-> << >>]
    ELSE [panic |-> FALSE,
          values |-> [i \in DOMAIN labels |->
                         LabelValue(bucket, fake, names, match, labels[i])]]

\* The labels of a descriptor (name and transformer), the capture groups of
\* its pattern, and the submatches of a key.
LabelNames == {"bucket", "scope", "op"}
Transforms == {"", "uppercase", "lowercase"}
Labels == [name : LabelNames, transform : Transforms]
LabelLists == UNION {[1 .. n -> Labels] : n \in 1 .. MaxLabels}
GroupLists == {<< >>, << "op" >>, << "scope" >>, << "op", "scope" >>, << "scope", "op" >>}
Texts == {"get", "Get"}
Matches(names) == {<< "key" >> \o m : m \in [DOMAIN names -> Texts]}
LabelCalls ==
    UNION {[fn : {"resolveLabelValues"}, bucket : {"b1"}, fake : BOOLEAN,
            labels : LabelLists, names : {names}, match : Matches(names)] :
           names \in GroupLists}

\* The prefix of a key before its last underscore.
FamilyPrefix(key) == key.fam

\* A value strconv.ParseUint rejects.
BadCount == -1

\* The values of the matched keys: counts, or text that is not a count.
StatValues == {1, 2, BadCount}

\* The keys of the histogram families of the model, prefix_lb,ub, and two
\* keys that are not of this form: one with its comma and a bound that does
\* not parse ("badBounds"), one without comma ("noComma").
FamilyKeys ==
    {[fam |-> f, lb |-> l, ub |-> l + 1, form |-> "ok"] : f \in {"f", "g"}, l \in 0 .. 2}
    \cup {[fam |-> "g", lb |-> 0, ub |-> 1, form |-> x] : x \in {"badBounds", "noComma"}}

\* The matched keys of a family, in the order the sort left them.
KeysOfFamily(order, f) == SelectSeq(order, LAMBDA k : FamilyPrefix(k) = f)

\* The comparison of sort.Slice is called when two keys or more match: it
\* panics on the error of findBounds, and findBounds itself panics on a key
\* without comma.
SortPanics(keys) ==
    Cardinality(keys) >= 2 /\ \E k \in keys : k.form # "ok"

RECURSIVE LoopOutcome(_, _, _, _)
\* The loop of mapHistogramStat over the sorted keys from the i-th on:
\* "panic" (the labels of a new histogram do not resolve, or the key has no
\* comma), "err" (findBounds or ParseUint returns an error: the function
\* returns it at once) or "done".
LoopOutcome(order, vals, labelsPanic, i) ==
    IF i > Len(order) THEN "done"
    ELSE IF labelsPanic \/ order[i].form = "noComma" THEN "panic"
    ELSE IF order[i].form = "badBounds" \/ vals[order[i]] = BadCount THEN "err"
    ELSE LoopOutcome(order, vals, labelsPanic, i + 1)

\* Metrics.mapHistogramStat on keys that all match: the panic of the sort or
\* of the loop, the error the loop returns before anything is sent, or the
\* histograms sent once the loop over the sorted keys is done and each
\* histogram is resampled (when resampleBuckets has entries): per family its
\* spans, the accumulator and the emitted buckets.
histograms(order, vals, multiplier, cfg, labels, names) ==
    LET labelsPanic ==
            resolveLabelValues("b1", FALSE, labels, names,
                               << "key" >> \o [i \in DOMAIN names |-> "get"]).panic
        outcome ==
            IF SortPanics(Range(order)) THEN "panic"
            ELSE LoopOutcome(order, vals, labelsPanic, 1)
    IN  [panic |-> outcome = "panic",
         err   |-> outcome = "err",
         sent  |-> IF outcome # "done" THEN << >>
                   ELSE [f \in {FamilyPrefix(order[i]) : i \in DOMAIN order} |->
                           LET ss == KeySpans(KeysOfFamily(order, f), vals, multiplier)
                               histo == AddAll(newHistogram, ss) IN
                           [spans |-> ss,
                            count |-> histo.count,
                            pre   |-> histo.buckets,
                            buckets |-> IF Len(cfg.vals) > 0
                                        THEN resample(histo.buckets, cfg.vals)
                                        ELSE histo.buckets]]]

\* The labels of the histogram descriptors of the model and the capture
\* groups of their patterns: "op" without a group of its name does not resolve.
HistoLabels == {<< [name |-> "bucket", transform |-> ""] >>,
                << [name |-> "op", transform |-> ""] >>}
HistoGroups == {<< >>, << "op" >>}

FamilyCalls ==
    UNION {[fn : {"mapHistogramStat"}, keys : {K}, vals : [K -> StatValues],
            order : {o \in [1 .. Cardinality(K) -> K] : IsSortedOrder(o, K)},
            multiplier : MultiplierValues, cfg : {NilBuckets},
            labels : HistoLabels, names : HistoGroups] :
           K \in {K \in SUBSET FamilyKeys : K # {} /\ Cardinality(K) <= MaxMatched}}

\* resolveLabelValues is called.
ResolveLabelValues ==
    /\ call.fn = "resolveLabelValues"
    /\ ~ret.done
    /\ ret' = [done |-> TRUE,
               out |-> resolveLabelValues(call.bucket, call.fake, call.labels,
                                          call.names, call.match)]
    /\ UNCHANGED << call, histoVars, cycleVars, mux, lockVars, cpuVars >>

\* mapHistogramStat is called with keys of one or several families.
MapHistogramFamilies ==
    /\ call.fn = "mapHistogramStat"
    /\ ~ret.done
    /\ ret' = [done |-> TRUE,
               out |-> histograms(call.order, call.vals, call.multiplier, call.cfg,
                                  call.labels, call.names)]
    /\ UNCHANGED << call, histoVars, cycleVars, mux, lockVars, cpuVars >>

CallInit ==
    /\ call \in LabelCalls \cup FamilyCalls
    /\ ret = [done |-> FALSE]
    /\ CpuIdle
    /\ HistoIdle
    /\ conf = NoConf
    /\ mux = "free"
    /\ CycleIdle
    /\ LockIdle

CallNext ==
    \/ ResolveLabelValues
    \/ MapHistogramFamilies

CallSpec == CallInit /\ [][CallNext]_vars

\* ---------------------------------------------------- the system collector
MaxSamples == 2

\* The fields of sigar.Cpu: Total() adds up all of them, cpuMetrics names
\* Idle, User, Sys, Irq and Stolen.
CpuFields == {"User", "Nice", "Sys", "Idle", "Wait", "Irq", "SoftIrq", "Stolen"}

\* The statements of cpuMetrics that load from c.latestCPUStats, in the order
\* of the source, each by the field it names next to its call of Total():
\* the test against 0 names none.  The metric set of the model configures
\* every CPU metric.
CpuStatements == << "", "Idle", "User", "Sys", "Irq", "Stolen" >>

\* The loads of one statement: those of the fields Total() adds up and that
\* of the operand.  Nothing orders them against each other (the language
\* orders the calls of an expression, not the loads), and they race with the
\* store of pumpCPU.
Loads(i) ==
    {[via |-> "Total", field |-> f] : f \in CpuFields}
    \cup (IF CpuStatements[i] = "" THEN {}
          ELSE {[via |-> "operand", field |-> CpuStatements[i]]})

\* A call of cpuMetrics about to start: the statement it is at, the loads of
\* that statement still to make, what Total() has added up for the test
\* against 0, and the samples the call has loaded from.
NoReads == [at |-> 1, pending |-> Loads(1), total |-> 0, seen |-> {}]

\* The values a field of a delivered sample can have: a delta over one
\* period, which is 0 for a field that did not advance.
FieldValues == {0, 1}

\* The values a load can find in a field copied from the given sample: 0 in
\* the value the collector is constructed with, any value in a delivered
\* sample.  The call loads a field for the test against 0 once, so the value
\* of the field in the sample is fixed there; in the statements after the
\* test a value loaded reaches only the metric sent, and 0 stands for it.
LoadedValues(at, sample) ==
    IF at > 1 \/ sample = 0 THEN {0} ELSE FieldValues

\* c.latestCPUStats.Total() == 0 in the first statement: the values loaded
\* add up to 0.
TotalIsZero ==
    /\ cpuReads.at = 1
    /\ cpuReads.pending = {}
    /\ cpuReads.total = 0

\* pumpCPU receives the next value from cpuCh.  Any value can arrive.
PumpReceive ==
    /\ pump.sample < MaxSamples
    /\ pump.sample = 0 \/ pump.stored = CpuFields
    /\ pump' = [sample |-> pump.sample + 1, stored |-> {}]
    /\ UNCHANGED << latestCPUStats, cpuReads >>
    /\ UNCHANGED << histoVars, cycleVars, mux, lockVars, pureVars >>

\* c.latestCPUStats = val in pumpCPU: the struct is copied without a lock,
\* so that a concurrent reader can see any part of the copy done.
PumpStore ==
    /\ pump.sample >= 1
    /\ \E f \in CpuFields \ pump.stored :
          /\ latestCPUStats' = [latestCPUStats EXCEPT ![f] = pump.sample]
          /\ pump' = [pump EXCEPT !.stored = @ \cup {f}]
    /\ UNCHANGED cpuReads
    /\ UNCHANGED << histoVars, cycleVars, mux, lockVars, pureVars >>

\* cpuMetrics makes one of the loads of its statement, without a lock.
CpuRead ==
    /\ \E ld \in cpuReads.pending :
       \E v \in LoadedValues(cpuReads.at, latestCPUStats[ld.field]) :
          cpuReads' = [cpuReads EXCEPT
                          !.pending = @ \ {ld},
                          !.total = IF cpuReads.at = 1 THEN @ + v ELSE @,
                          !.seen = @ \cup {latestCPUStats[ld.field]}]
    /\ UNCHANGED << latestCPUStats, pump >>
    /\ UNCHANGED << histoVars, cycleVars, mux, lockVars, pureVars >>

\* The statement is done: Total() was not 0, or the metric is sent; on to
\* the next statement.
CpuSend ==
    /\ cpuReads.at >= 1
    /\ cpuReads.pending = {}
    /\ cpuReads.at < Len(CpuStatements)
    /\ ~TotalIsZero
    /\ cpuReads' = [cpuReads EXCEPT !.at = @ + 1, !.pending = Loads(cpuReads.at + 1),
                                    !.total = 0]
    /\ UNCHANGED << latestCPUStats, pump >>
    /\ UNCHANGED << histoVars, cycleVars, mux, lockVars, pureVars >>

\* cpuMetrics returns: Total() was 0, or the last metric is sent.  One call
\* is followed, started at any moment of the work of pumpCPU.
CpuReturn ==
    /\ cpuReads.at >= 1
    /\ cpuReads.pending = {}
    /\ TotalIsZero \/ cpuReads.at = Len(CpuStatements)
    /\ cpuReads' = [cpuReads EXCEPT !.at = 0]
    /\ UNCHANGED << latestCPUStats, pump >>
    /\ UNCHANGED << histoVars, cycleVars, mux, lockVars, pureVars >>

\* NewSystemMetrics: the zero sample, pumpCPU started.
CpuInit ==
    /\ latestCPUStats = [f \in CpuFields |-> 0]
    /\ pump = [sample |-> 0, stored |-> {}]
    /\ cpuReads = NoReads
    /\ PureIdle
    /\ HistoIdle
    /\ conf = NoConf
    /\ mux = "free"
    /\ CycleIdle
    /\ LockIdle

CpuNext ==
    \/ CpuSend
    \/ PumpReceive
    \/ PumpStore
    \/ CpuRead
    \/ CpuReturn

CpuSpec == CpuInit /\ [][CpuNext]_vars

\* ------------------------------------------ claims on the collection cycle
\* The samples of the cycle that come from descriptor id.
SamplesOf(id) == {s \in samples : s.id = id}

\* The descriptors of the installed configuration.
Descs == Range(conf.descs)

\* C11: within one cycle a singleton descriptor produces at most one sample
\* in total, over all buckets and stat groups, also when an earlier attempt
\* to process it failed part-way.
C11_SingletonAtMostOnce ==
    \A d \in Descs : d.singleton => Cardinality(SamplesOf(d.id)) <= 1

\* C12: a singleton descriptor is marked as emitted only after it emitted a
\* sample, so that a bucket in which it matches no key leaves it to be
\* emitted from a later bucket.
C12_MarkedOnlyAfterEmission ==
    \A id \in trace.marked : SamplesOf(id) # {}

\* C13: singleton tracking is keyed by the descriptor: a descriptor is
\* skipped only when it was itself marked, never because another descriptor
\* (of the same metric name) was.
C13_SkippedOnlyIfMarkedItself ==
    \A id \in trace.skipped : id \in trace.marked

\* C17: when the list request fails or has a nil response the cycle is
\* aborted: the list request is the only request, nothing is emitted, and
\* Collect has returned with the mutex released.
C17_ListFailureAborts ==
    trace.listFailed =>
        /\ cpc = "returned"
        /\ mux = "free"
        /\ trace.requests = << [op |-> "list", item |-> 0] >>
        /\ selected = 0
        /\ samples = {}

C17_Witness ==
    /\ trace.listFailed
    /\ cpc = "returned"
    /\ Len(trace.requests) = 1

\* C18: a bucket whose selection failed is skipped: no sample of the cycle
\* carries it as its bucket label.
C18_FailedSelectEmitsNothing ==
    \A s \in samples : s.label \notin trace.selectFailed

\* C19: for a value descriptor a value that does not parse skips that key
\* only: every other matching key of the stat map has its sample, whatever
\* the order in which the map yields its keys.
C19_BadValueSkipsOnlyItsKey ==
    \A d \in Descs :
        (d.id \in last.evaluated /\ d.type = "value") =>
            \A k \in DOMAIN last.vals :
                (k \in d.pattern /\ last.vals[k] # "badValue") =>
                    \E s \in SamplesOf(d.id) : s.label = last.label /\ s.key = k

\* C20: a descriptor that fails does not keep the other descriptors of its
\* stat group from being processed: in a call of processStatGroup with a
\* failure, every descriptor of the group was evaluated, or skipped as a
\* singleton already emitted.
C20_FailureIsolated ==
    last.failed # {} =>
        \A d \in Range(GroupDescs(conf.descs, last.group)) :
            d.id \in last.evaluated \/ SkipSingleton(d, singletons)

\* C21: bounds that do not parse in a key matched by a histogram descriptor
\* are returned as an error and skip that histogram only; the cycle is never
\* aborted by a panic.
C21_NoPanic == cpc # "panicked"

\* The timing requests the cycle has issued for an item.
TimingRequests(item) ==
    {i \in DOMAIN trace.requests :
        trace.requests[i].op = "timings" /\ trace.requests[i].item = item}

\* The items whose body of the loop over the buckets is complete.
ItemsDone ==
    {i \in DOMAIN items : i < idx \/ (i = idx /\ cpc = "returned")}

\* C23: a timing request that fails or does not unmarshal skips its opcode
\* only: for every item the timing request of each configured opcode is issued.
C23_EveryOpcodeRequested ==
    conf.timings =>
        \A item \in ItemsDone : Cardinality(TimingRequests(item)) = Len(Opcodes)

\* C26: the samples of a cycle are determined by the item list, the stat
\* maps and the descriptors: what a value descriptor has emitted for the last
\* stat map is what it emits under every order in which the map can yield
\* its keys.
C26_IndependentOfMapOrder ==
    \A d \in Descs :
        (d.id \in last.evaluated /\ d.type = "value") =>
            \A o \in KeyOrders(DOMAIN last.vals) :
                mapValueStat(d, last.label, selected, last.vals, o).samples
                    = {s \in SamplesOf(d.id) : s.label = last.label}

\* The place of a request in the body of the loop over the buckets.
Rank(op) == CASE op = "list" -> 0 [] op = "select" -> 1
              [] op = "stats" -> 2 [] op = "timings" -> 3

\* The list request is the first request of the cycle and the only one.
ListedOnceAndFirst ==
    \A i \in DOMAIN trace.requests : (trace.requests[i].op = "list") <=> (i = 1)

\* C28 as stated: the list request comes once and first, and after a timing
\* request the cycle issues no stat-group request.
C28_Original ==
    /\ ListedOnceAndFirst
    /\ \A i, j \in DOMAIN trace.requests :
          (i < j /\ trace.requests[i].op = "timings") => trace.requests[j].op # "stats"

\* C28 as the code has it: the list request comes once and first; the items
\* are processed one after the other, and for each item the select request
\* precedes its stat-group requests, which precede its timing requests.
C28_Amended ==
    /\ ListedOnceAndFirst
    /\ \A i, j \in DOMAIN trace.requests :
          i < j =>
             \/ trace.requests[i].item < trace.requests[j].item
             \/ /\ trace.requests[i].item = trace.requests[j].item
                /\ Rank(trace.requests[i].op) <= Rank(trace.requests[j].op)

C28_Witness ==
    /\ cpc = "returned"
    /\ Len(items) = 2
    /\ \E i, j \in DOMAIN trace.requests :
          /\ i < j
          /\ trace.requests[i] = [op |-> "timings", item |-> 1]
          /\ trace.requests[j] = [op |-> "stats", item |-> 2]

\* ------------------------------------------------ claims on the mutex
\* The goroutines inside the section that m.mux protects.
InSection == {p \in Procs : lpc[p] \notin {"idle", "waiting"}}

\* The collectors whose cycle has requests on the connection: the list
\* request was sent and Collect has not returned.
OnConnection == {c \in Collectors : lpc[c] \in {"stats", "timings"}}

\* C14: no two of the Collect and updateMetricSet calls are inside the
\* section the mutex protects at the same time, so the connection carries
\* the requests of at most one cycle.
C14_MutualExclusion ==
    /\ Cardinality(InSection) <= 1
    /\ Cardinality(OnConnection) <= 1
    /\ InSection # {} => mux \in InSection

C14_Witness ==
    \E c \in Collectors : \E p \in Procs \ {c} :
        lpc[c] = "timings" /\ lpc[p] = "waiting"

\* C15: a cycle reads one configuration: the versions of m.stats and
\* m.commandTimings it has read, over all of its buckets, are the same one.
C15_AtomicUpdate ==
    \A c \in Collectors : Cardinality({r[2] : r \in seen[c]}) <= 1

C15_Witness ==
    \E c \in Collectors :
        /\ lpc[c] = "stats"
        /\ lpc[Updater] = "waiting"
        /\ << "timings", 1 >> \in seen[c]
        /\ \E d \in Collectors \ {c} : << "timings", 0 >> \in seen[d]

\* The updateMetricSet calls that have returned or not yet passed the
\* compilation of their patterns leave, as installed version, the last call
\* that compiled (0: the configuration of the constructor).
Settled ==
    IF lpc[Updater] = "idle" THEN updates ELSE SubSeq(updates, 1, Len(updates) - 1)
LastCompiled(us) == Max({0} \cup {v \in DOMAIN us : us[v]})

\* C16: a metric set with a pattern that does not compile is rejected as a
\* whole: m.ms, m.stats and m.commandTimings keep the version installed
\* before, and the cycles read no other.
C16_InvalidUpdateRejected ==
    /\ lpc[Updater] \in {"idle", "waiting", "compile"} =>
          \A f \in DOMAIN inst : inst[f] = LastCompiled(Settled)
    /\ \A c \in Collectors : \A r \in seen[c] : r[2] = 0 \/ updates[r[2]]

C16_Witness ==
    /\ lpc[Updater] = "idle"
    /\ updates = << TRUE, FALSE >>
    /\ \E c \in Collectors : lpc[c] = "timings" /\ seen[c] = {<< "stats", 1 >>}

\* ------------------------------------- claims on functions called on their own
\* The labels of the call that have no capture group of their name.
LabelsWithoutGroup ==
    {i \in DOMAIN call.labels :
        /\ call.labels[i].name \notin {"bucket", "scope", "collection"}
        /\ SubexpIndex(call.names, call.labels[i].name) = -1}

\* C22: a label (other than bucket, scope, collection) without a capture
\* group of its name gives an empty value; resolveLabelValues still returns
\* one value per label.
C22_MissingGroupGivesEmptyValue ==
    (call.fn = "resolveLabelValues" /\ ret.done) =>
        /\ ~ret.out.panic
        /\ Len(ret.out.values) = Len(call.labels)
        /\ \A i \in LabelsWithoutGroup : ret.out.values[i] = ""

\* C24: a histogram descriptor without a multiplier behaves as with the
\* multiplier 1: its spans carry the parsed bounds, so distinct upper bounds
\* are distinct buckets.
C24_UnsetMultiplierIsOne ==
    (call.fn = "mapHistogramStat" /\ ret.done /\ call.multiplier = 0) =>
        \A f \in DOMAIN ret.out.sent :
            /\ ret.out.sent[f].spans = KeySpans(KeysOfFamily(call.order, f), call.vals, 1)
            /\ DOMAIN ret.out.sent[f].pre = {k.ub : k \in {x \in call.keys : x.fam = f}}

RECURSIVE SumVals(_, _)
SumVals(K, vals) ==
    IF K = {} THEN 0
    ELSE LET k == CHOOSE x \in K : TRUE IN vals[k] + SumVals(K \ {k}, vals)

\* The key parses: it has the form prefix_lb,ub and its value is a count.
KeyParses(k) == k.form = "ok" /\ call.vals[k] # BadCount

\* C27: the matched keys are partitioned by their prefix: one histogram per
\* prefix, its spans those of the keys of the prefix in ascending order of
\* lower bound, its count the sum of their values.  Stated for a call that
\* returns, and asking for the histogram of a prefix only when every key of
\* the prefix parses.
C27_OneHistogramPerPrefix ==
    (call.fn = "mapHistogramStat" /\ ret.done /\ ~ret.out.panic) =>
        /\ DOMAIN ret.out.sent \subseteq {k.fam : k \in call.keys}
        /\ \A f \in {k.fam : k \in call.keys} :
              (\A k \in call.keys : k.fam = f => KeyParses(k)) =>
                  f \in DOMAIN ret.out.sent
        /\ \A f \in DOMAIN ret.out.sent :
              LET K == {k \in call.keys : k.fam = f} IN
              /\ Len(ret.out.sent[f].spans) = Cardinality(K)
              /\ \A i, j \in DOMAIN ret.out.sent[f].spans :
                    i < j => ret.out.sent[f].spans[i].lb <= ret.out.sent[f].spans[j].lb
              /\ ret.out.sent[f].count = Uint64(SumVals(K, call.vals))

\* ------------------------------------------- claims on the system collector
\* C30: a Collect call never sees a partially updated CPU sample: all the
\* loads from latestCPUStats of one cpuMetrics call see the same sample.
C30_SingleSamplePerCycle ==
    Cardinality(cpuReads.seen) <= 1

====
